---- MODULE Spec2Model ----
(***************************************************************************)
(* Model of the activation-state classifier (modules/visual_analyzer.py),  *)
(* of the structured field extractor and validator                         *)
(* (modules/data_extractor.py) and of request processing (app.py) of the   *)
(* OCR web application.                                                    *)
(*                                                                         *)
(* Brightness, contrast and sharpness are floats in the program; the model *)
(* uses integers 0..255.  The average brightness is kept as the pair       *)
(* (sum, count) and every comparison with it is cross-multiplied, so no    *)
(* rounding is introduced.  The weighted score 0.4/0.3/0.3 against 0.5 is  *)
(* kept in tenths (4/3/3 against 5); in IEEE doubles 0.4, 0.6, 0.7 and 1.0 *)
(* compare with 0.5 exactly as the tenths do.  The OCR confidence of a     *)
(* region is copied through unchanged by every step and is left out.       *)
(***************************************************************************)
EXTENDS Integers, Sequences, FiniteSets, TLC

VARIABLES
    pc,                  \* position in the pipeline
    regions,             \* OCR output: ordered sequence of text regions
    target_regions,      \* regions retained for the lexicon (get_text_regions)
    brightness_results,  \* profiles built by analyze_text_brightness
    activation_analysis, \* result of _analyze_activation_states
    summary,             \* result of _generate_summary
    comparison_result,   \* result of _compare_operator_selection
    error,               \* exception raised by the last call, or None
    ocr_text,            \* full transcribed text, as a sequence of tokens
    visual_analysis,     \* classifier result handed to the extractor, or None
    result,              \* record returned by the extractor
    record,              \* record handed to validate_extracted_data
    validation,          \* (is_valid, errors) returned by validate_extracted_data
    response,            \* record returned by process_image
    word_data,           \* ordered words handed to _find_nearby_number
    index,               \* position of the keyword in word_data (0-based)
    nearby,              \* value returned by _find_nearby_number
    files,               \* upload folder: path -> content of the saved file
    requests,            \* per worker thread: state of its upload request
    clock                \* wall clock, in seconds

validate_vars == <<record, validation>>
nearby_vars == <<word_data, index, nearby>>
upload_vars == <<files, requests, clock>>

vars == <<pc, regions, target_regions, brightness_results, activation_analysis,
          summary, comparison_result, error, ocr_text, visual_analysis, result,
          validate_vars, response, nearby_vars, upload_vars>>

None == "None"

\* parts of the state not used by the operation under study
ValidateIdle == record = None /\ validation = None
NearbyIdle == word_data = <<>> /\ index = 0 /\ nearby = None
UploadIdle == files = <<>> /\ requests = <<>> /\ clock = 0

Max(a, b) == IF a >= b THEN a ELSE b
Min(a, b) == IF a <= b THEN a ELSE b

(***************************************************************************)
(* Bounds of the model                                                     *)
(***************************************************************************)
MaxRegions == 2      \* regions in one OCR result
ImageWidth == 4      \* gray.shape[1] of the analysed image
ImageHeight == 3     \* gray.shape[0] of the analysed image
MaxTokens == 3       \* tokens in one transcribed text

(***************************************************************************)
(* Configuration set at construction                                       *)
(***************************************************************************)
brightness_threshold == 50
contrast_threshold == 30
sharpness_threshold == 100

\* text_list / DataExtractor.operators: the lexicon, in its fixed order
operators == <<"ChinaMobile", "ChinaUnicom", "ChinaTelecom", "ChinaBroadnet">>

Labels == {operators[i] : i \in 1..Len(operators)}

(***************************************************************************)
(* Inputs.  A region text is described by the lexicon labels it contains   *)
(* verbatim ("contains", what `operator in text` tests) and those it       *)
(* contains only with the leading glyphs garbled ("garbled").              *)
(***************************************************************************)
Texts ==
    { [contains |-> {"ChinaMobile"}, garbled |-> {}],
      [contains |-> {"ChinaUnicom"}, garbled |-> {}],
      [contains |-> {"ChinaTelecom"}, garbled |-> {}],
      [contains |-> {"ChinaMobile", "ChinaUnicom"}, garbled |-> {}],
      [contains |-> {}, garbled |-> {"ChinaMobile"}] }

\* bounding boxes as the OCR engine reports them (left, top, width, height);
\* the crops they lead to do not overlap, so their statistics are independent
Boxes ==
    { [left |-> 1, top |-> 1, width |-> 2, height |-> 1],
      [left |-> -1, top |-> 0, width |-> ImageWidth + 2, height |-> 1],
      [left |-> ImageWidth + 1, top |-> -1, width |-> 2, height |-> 2],
      [left |-> 0, top |-> 0, width |-> 0, height |-> 2] }

MkRegion(t, b) ==
    [text |-> t, left |-> b.left, top |-> b.top, width |-> b.width, height |-> b.height]

RegionInputs == {MkRegion(t, b) : t \in Texts, b \in Boxes}

\* Pixel statistics a crop of an 8-bit grayscale image can have: an all-black
\* crop (mean 0) is constant, so its standard deviation and its Laplacian
\* variance are 0; the other crops sampled here are textured.
Profiles ==
    { p \in [mean : {0, 80, 200}, contrast : {0, 20, 40}, sharpness : {0, 50, 150}] :
        /\ (p.mean = 0) => (p.contrast = 0 /\ p.sharpness = 0)
        /\ (p.mean # 0) => (p.contrast # 0 /\ p.sharpness # 0) }

SeqsUpTo(S, n) == UNION {[1..k -> S] : k \in 0..n}

(***************************************************************************)
(* OCRProcessor.get_text_regions: the region selector.  A region matches a *)
(* label when its text contains the label verbatim or garbled; the first   *)
(* region matching a label is that label's representative and later        *)
(* matches for the same label are discarded.                               *)
(***************************************************************************)
Matches(region, label) ==
    label \in region.text.contains \/ label \in region.text.garbled

IsRepresentative(rs, i) ==
    \E k \in 1..Len(operators) :
        /\ Matches(rs[i], operators[k])
        /\ \A j \in 1..(i - 1) : ~Matches(rs[j], operators[k])

RECURSIVE SelectFrom(_, _)
SelectFrom(rs, i) ==
    IF i > Len(rs) THEN <<>>
    ELSE IF IsRepresentative(rs, i) THEN <<rs[i]>> \o SelectFrom(rs, i + 1)
    ELSE SelectFrom(rs, i + 1)

get_text_regions(rs) == SelectFrom(rs, 1)

(***************************************************************************)
(* VisualAnalyzer.analyze_text_brightness, lines 47-77: the clamped box    *)
(* and the profile of one region.                                          *)
(***************************************************************************)
ClampBox(region) ==
    LET x == Max(0, region.left)
        y == Max(0, region.top)
        w == Min(region.width, ImageWidth - x)
        h == Min(region.height, ImageHeight - y)
    IN [x |-> x, y |-> y, width |-> w, height |-> h]

Cropped(box) == box.width > 0 /\ box.height > 0

\* the grayscale image, seen through the statistics of its crops
Images == [{ClampBox(r) : r \in {q \in RegionInputs : Cropped(ClampBox(q))}} -> Profiles]

RECURSIVE ProfileRegions(_, _, _)
ProfileRegions(rs, image, i) ==
    IF i > Len(rs) THEN <<>>
    ELSE LET box == ClampBox(rs[i])
         IN IF Cropped(box)
            THEN <<[text |-> rs[i].text,
                    region |-> box,
                    brightness |-> image[box].mean,
                    contrast |-> image[box].contrast,
                    clarity |-> image[box].sharpness]>>
                 \o ProfileRegions(rs, image, i + 1)
            ELSE ProfileRegions(rs, image, i + 1)

(***************************************************************************)
(* VisualAnalyzer._determine_activation_status.  The average brightness is *)
(* total / count; brightness - avg > threshold is multiplied by count.     *)
(***************************************************************************)
BrightnessIndicatorAbsolute(brightness, total, count) ==
    brightness > brightness_threshold

BrightnessIndicator(brightness, total, count) ==
    brightness * count - total > brightness_threshold * count

ContrastIndicator(contrast) == contrast > contrast_threshold

SharpnessIndicator(sharpness) == sharpness > sharpness_threshold

Weight(b, tenths) == IF b THEN tenths ELSE 0

determine_activation_status_inverted(brightness, total, count, contrast, sharpness) ==
    Weight(BrightnessIndicator(brightness, total, count), 4)
    + Weight(ContrastIndicator(contrast), 3)
    + Weight(SharpnessIndicator(sharpness), 3) < 5

determine_activation_status_low(brightness, total, count, contrast, sharpness) ==
    Weight(BrightnessIndicator(brightness, total, count), 4)
    + Weight(ContrastIndicator(contrast), 3)
    + Weight(SharpnessIndicator(sharpness), 3) > 3

determine_activation_status(brightness, total, count, contrast, sharpness) ==
    Weight(BrightnessIndicator(brightness, total, count), 4)
    + Weight(ContrastIndicator(contrast), 3)
    + Weight(SharpnessIndicator(sharpness), 3) > 5

\* VisualAnalyzer._categorize_brightness
categorize_brightness(brightness) ==
    IF brightness > 180 THEN "very_high"
    ELSE IF brightness > 140 THEN "high"
    ELSE IF brightness > 100 THEN "medium"
    ELSE IF brightness > 60 THEN "low"
    ELSE "very_low"

(***************************************************************************)
(* VisualAnalyzer._analyze_activation_states                               *)
(***************************************************************************)
RECURSIVE SumBrightness(_, _)
SumBrightness(results, i) ==
    IF i > Len(results) THEN 0
    ELSE results[i].brightness + SumBrightness(results, i + 1)

TextInfo(r, total, count) ==
    LET is_active ==
            determine_activation_status(r.brightness, total, count, r.contrast, r.clarity)
    IN [text |-> r.text,
        brightness_level |-> categorize_brightness(r.brightness),
        brightness_value |-> r.brightness,
        contrast_value |-> r.contrast,
        status |-> IF is_active THEN "active" ELSE "inactive"]

RECURSIVE TextsUnfiltered(_, _, _, _, _)
TextsUnfiltered(results, total, count, status, i) ==
    IF i > Len(results) THEN <<>>
    ELSE <<TextInfo(results[i], total, count)>>
         \o TextsUnfiltered(results, total, count, status, i + 1)

RECURSIVE TextsWithStatus(_, _, _, _, _)
TextsWithStatus(results, total, count, status, i) ==
    IF i > Len(results) THEN <<>>
    ELSE LET info == TextInfo(results[i], total, count)
         IN (IF info.status = status THEN <<info>> ELSE <<>>)
            \o TextsWithStatus(results, total, count, status, i + 1)

\* the result for an empty list has no 'average_brightness' key (line 168)
analyze_activation_states(results) ==
    IF Len(results) = 0
    THEN [active_texts |-> <<>>, inactive_texts |-> <<>>,
          has_average_brightness |-> FALSE, total |-> 0, count |-> 0]
    ELSE LET total == SumBrightness(results, 1)
             count == Len(results)
         IN [active_texts |-> TextsWithStatus(results, total, count, "active", 1),
             inactive_texts |-> TextsWithStatus(results, total, count, "inactive", 1),
             has_average_brightness |-> TRUE, total |-> total, count |-> count]

(***************************************************************************)
(* VisualAnalyzer._generate_summary.  Reading 'average_brightness' from an *)
(* analysis that has no such key raises KeyError.  activation_ratio is the *)
(* pair active_regions / total_text_regions.                               *)
(***************************************************************************)
SummaryRaises(analysis) == ~analysis.has_average_brightness

generate_summary(results, analysis) ==
    [total_text_regions |-> Len(results),
     active_regions |-> Len(analysis.active_texts),
     inactive_regions |-> Len(analysis.inactive_texts),
     average_brightness |-> <<analysis.total, analysis.count>>,
     activation_ratio |->
        IF Len(results) > 0 THEN <<Len(analysis.active_texts), Len(results)>>
        ELSE <<0, 1>>]

(***************************************************************************)
(* VisualAnalyzer._compare_operator_selection.  operator_states is a dict: *)
(* a sequence of entries in insertion order; assigning an existing key     *)
(* replaces its value in place.                                            *)
(***************************************************************************)
HasKey(states, operator) == \E i \in 1..Len(states) : states[i].operator = operator

DictPut(states, entry) ==
    IF HasKey(states, entry.operator)
    THEN [i \in 1..Len(states) |->
            IF states[i].operator = entry.operator THEN entry ELSE states[i]]
    ELSE Append(states, entry)

OperatorState(operator, info, status) ==
    [operator |-> operator,
     status |-> status,
     brightness_level |-> info.brightness_level,
     brightness_value |-> info.brightness_value]

\* lines 339-346: inner loop over text_list for one active text
RECURSIVE PutActive(_, _, _)
PutActive(states, info, k) ==
    IF k > Len(operators) THEN states
    ELSE IF operators[k] \in info.text.contains
         THEN PutActive(DictPut(states, OperatorState(operators[k], info, "active")),
                        info, k + 1)
         ELSE PutActive(states, info, k + 1)

\* lines 350-357: inner loop over text_list for one inactive text
RECURSIVE PutInactive(_, _, _)
PutInactive(states, info, k) ==
    IF k > Len(operators) THEN states
    ELSE IF operators[k] \in info.text.contains /\ ~HasKey(states, operators[k])
         THEN PutInactive(DictPut(states, OperatorState(operators[k], info, "inactive")),
                          info, k + 1)
         ELSE PutInactive(states, info, k + 1)

RECURSIVE ActiveLoop(_, _, _)
ActiveLoop(states, active_texts, i) ==
    IF i > Len(active_texts) THEN states
    ELSE ActiveLoop(PutActive(states, active_texts[i], 1), active_texts, i + 1)

RECURSIVE InactiveLoop(_, _, _)
InactiveLoop(states, inactive_texts, i) ==
    IF i > Len(inactive_texts) THEN states
    ELSE InactiveLoop(PutInactive(states, inactive_texts[i], 1), inactive_texts, i + 1)

build_operator_states(analysis) ==
    InactiveLoop(ActiveLoop(<<>>, analysis.active_texts, 1), analysis.inactive_texts, 1)

\* lines 360-366: active_operator = None, max_brightness = 0, then the scan
RECURSIVE ScanActive(_, _, _, _)
ScanActive(states, i, active_operator, max_brightness) ==
    IF i > Len(states) THEN active_operator
    ELSE IF states[i].status = "active" /\ states[i].brightness_value > max_brightness
         THEN ScanActive(states, i + 1, states[i].operator, states[i].brightness_value)
         ELSE ScanActive(states, i + 1, active_operator, max_brightness)

RECURSIVE ScanFirstActive(_, _)
ScanFirstActive(states, i) ==
    IF i > Len(states) THEN None
    ELSE IF states[i].status = "active" THEN states[i].operator
         ELSE ScanFirstActive(states, i + 1)

select_first_active(states) == ScanFirstActive(states, 1)

select_active_operator(states) == ScanActive(states, 1, None, 0)

compare_operator_selection(analysis) ==
    LET operator_states == build_operator_states(analysis)
    IN [operator_states |-> operator_states,
        active_operator |-> select_active_operator(operator_states),
        available_operators |->
            [i \in 1..Len(operator_states) |-> operator_states[i].operator]]

(***************************************************************************)
(* The classifier pipeline of compare_text_regions (lines 292-313)         *)
(***************************************************************************)
\* visual_analysis is None, or a dict that may hold 'comparison_result'
NoVisualAnalysis == [is_none |-> TRUE]

NoAnalysis ==
    [active_texts |-> <<>>, inactive_texts |-> <<>>,
     has_average_brightness |-> FALSE, total |-> 0, count |-> 0]

Init ==
    /\ pc = "ocr_done"
    /\ regions \in SeqsUpTo(RegionInputs, MaxRegions)
    /\ target_regions = <<>>
    /\ brightness_results = <<>>
    /\ activation_analysis = NoAnalysis
    /\ summary = None
    /\ comparison_result = None
    /\ error = None
    /\ ocr_text = <<>>
    /\ visual_analysis = NoVisualAnalysis
    /\ result = None
    /\ response = None
    /\ ValidateIdle /\ NearbyIdle /\ UploadIdle

\* ocr.get_text_regions(image_path, text_list)
GetTextRegions ==
    /\ pc = "ocr_done"
    /\ target_regions' = get_text_regions(regions)
    /\ pc' = "selected"
    /\ UNCHANGED <<regions, brightness_results, activation_analysis, summary,
                   comparison_result, error, ocr_text, visual_analysis, result,
                   validate_vars, response, nearby_vars, upload_vars>>

\* self.analyze_text_brightness(image_path, ocr_result['target_regions'])
AnalyzeTextBrightness ==
    /\ pc = "selected"
    /\ \E image \in Images :
        LET results == ProfileRegions(target_regions, image, 1)
            analysis == analyze_activation_states(results)
        IN /\ brightness_results' = results
           /\ activation_analysis' = analysis
           /\ IF SummaryRaises(analysis)
              THEN /\ summary' = None
                   /\ error' = "KeyError"
                   /\ pc' = "raised"
              ELSE /\ summary' = generate_summary(results, analysis)
                   /\ error' = None
                   /\ pc' = "analyzed"
    /\ UNCHANGED <<regions, target_regions, comparison_result, ocr_text,
                   visual_analysis, result,
                   validate_vars, response, nearby_vars, upload_vars>>

\* self._compare_operator_selection(brightness_analysis, text_list)
CompareOperatorSelection ==
    /\ pc = "analyzed"
    /\ comparison_result' = compare_operator_selection(activation_analysis)
    /\ pc' = "compared"
    /\ UNCHANGED <<regions, target_regions, brightness_results, activation_analysis,
                   summary, error, ocr_text, visual_analysis, result,
                   validate_vars, response, nearby_vars, upload_vars>>

Next ==
    \/ GetTextRegions
    \/ AnalyzeTextBrightness
    \/ CompareOperatorSelection

Spec == Init /\ [][Next]_vars

(***************************************************************************)
(* Properties of the classifier (checked under Spec)                       *)
(***************************************************************************)
Analyzed == pc \in {"analyzed", "compared"}

AnalysisAttempted == pc \in {"analyzed", "raised", "compared"}

\* the three indicators of one profile, against the average over all profiles
IndicatorB(r) ==
    BrightnessIndicator(r.brightness, SumBrightness(brightness_results, 1),
                        Len(brightness_results))
IndicatorC(r) == ContrastIndicator(r.contrast)
IndicatorS(r) == SharpnessIndicator(r.clarity)

AtLeastTwo(r) ==
    \/ IndicatorB(r) /\ IndicatorC(r)
    \/ IndicatorB(r) /\ IndicatorS(r)
    \/ IndicatorC(r) /\ IndicatorS(r)

FewerThanTwo(r) == ~AtLeastTwo(r)

InfoKeys(infos) ==
    [i \in 1..Len(infos) |->
        <<infos[i].text, infos[i].brightness_value, infos[i].contrast_value>>]

ResultKeys(results) ==
    [i \in 1..Len(results) |->
        <<results[i].text, results[i].brightness, results[i].contrast>>]

\* C1: a region is marked active if and only if at least two of the three
\* indicators B, C, S hold for it: active_texts lists exactly the profiles
\* with two or more indicators, inactive_texts exactly the others, so no
\* single indicator (B included) makes a region active.
C1_ActiveIffTwoIndicators ==
    Analyzed =>
        /\ InfoKeys(activation_analysis.active_texts)
             = ResultKeys(SelectSeq(brightness_results, AtLeastTwo))
        /\ InfoKeys(activation_analysis.inactive_texts)
             = ResultKeys(SelectSeq(brightness_results, FewerThanTwo))
        /\ \A i \in 1..Len(activation_analysis.active_texts) :
             activation_analysis.active_texts[i].status = "active"
        /\ \A i \in 1..Len(activation_analysis.inactive_texts) :
             activation_analysis.inactive_texts[i].status = "inactive"

\* a region with B alone stays inactive next to a region active by C and S alone
C1_Witness ==
    /\ pc = "analyzed"
    /\ \E i \in 1..Len(brightness_results) :
         /\ IndicatorB(brightness_results[i])
         /\ ~IndicatorC(brightness_results[i])
         /\ ~IndicatorS(brightness_results[i])
    /\ \E j \in 1..Len(brightness_results) :
         /\ ~IndicatorB(brightness_results[j])
         /\ IndicatorC(brightness_results[j])
         /\ IndicatorS(brightness_results[j])
    /\ Len(activation_analysis.active_texts) = 1
    /\ Len(activation_analysis.inactive_texts) = 1

\* C2: at most one active_operator is reported, and when one is reported it
\* has status active in operator_states and its brightness is the maximum
\* over all operators whose status is active.
C2_ActiveOperatorIsBrightestActive ==
    pc = "compared" =>
        LET states == comparison_result.operator_states
            chosen == comparison_result.active_operator
        IN /\ chosen \in Labels \cup {None}
           /\ chosen # None =>
                \E i \in 1..Len(states) :
                    /\ states[i].operator = chosen
                    /\ states[i].status = "active"
                    /\ \A j \in 1..Len(states) :
                         states[j].status = "active"
                            => states[j].brightness_value <= states[i].brightness_value

\* two active operators, the later one of the dict being the brighter and chosen
C2_Witness ==
    /\ pc = "compared"
    /\ LET states == comparison_result.operator_states
       IN \E i, j \in 1..Len(states) :
            /\ i < j
            /\ states[i].status = "active"
            /\ states[j].status = "active"
            /\ states[i].brightness_value < states[j].brightness_value
            /\ comparison_result.active_operator = states[j].operator

\* C3: when no region yields a profile, analyze_text_brightness followed by
\* _compare_operator_selection completes without raising and reports no
\* active operator.
C3_NoProfileCompletesWithoutOperator ==
    (AnalysisAttempted /\ Len(brightness_results) = 0) =>
        /\ error = None
        /\ pc = "compared" => comparison_result.active_operator = None

\* C4: when exactly one candidate region exists, that candidate is returned
\* as the active operator whatever its brightness, contrast and sharpness.
C4_SoleCandidateIsActiveOperator ==
    (/\ pc = "compared"
     /\ Len(target_regions) = 1
     /\ Len(brightness_results) = 1
     /\ brightness_results[1].text.contains # {}) =>
        comparison_result.active_operator \in brightness_results[1].text.contains

\* C5: when two or more candidate labels exist and none is flagged active,
\* the label with the highest brightness is still reported as active_operator.
C5_BrightestReportedWhenNoneActive ==
    (/\ pc = "compared"
     /\ Len(comparison_result.operator_states) >= 2
     /\ Len(activation_analysis.active_texts) = 0) =>
        LET states == comparison_result.operator_states
        IN \E i \in 1..Len(states) :
             /\ comparison_result.active_operator = states[i].operator
             /\ \A j \in 1..Len(states) :
                  states[j].brightness_value <= states[i].brightness_value

\* the scenario of C6: two profiles, the brighter (mean 200) with contrast and
\* sharpness above their thresholds and naming a label, the dimmer (mean 80)
\* with both below
BrightAndDim(b, d) ==
    /\ Len(brightness_results) = 2
    /\ {b, d} = {1, 2}
    /\ brightness_results[b].brightness = 200
    /\ IndicatorC(brightness_results[b])
    /\ IndicatorS(brightness_results[b])
    /\ brightness_results[b].text.contains # {}
    /\ brightness_results[d].brightness = 80
    /\ ~IndicatorC(brightness_results[d])
    /\ ~IndicatorS(brightness_results[d])

FirstMatching(operator) ==
    CHOOSE i \in 1..Len(brightness_results) :
        /\ operator \in brightness_results[i].text.contains
        /\ \A j \in 1..(i - 1) : operator \notin brightness_results[j].text.contains

\* C7: the operator state kept for a label is the one derived from the first
\* region (in OCR output order) whose text matches the label; later matching
\* regions never replace it.
C7_StateFromFirstMatchingRegion ==
    pc = "compared" =>
        \A k \in 1..Len(comparison_result.operator_states) :
            LET state == comparison_result.operator_states[k]
                first == brightness_results[FirstMatching(state.operator)]
            IN /\ state.brightness_value = first.brightness
               /\ state.brightness_level = categorize_brightness(first.brightness)
               /\ state.status = IF AtLeastTwo(first) THEN "active" ELSE "inactive"

BoxInsideImage(box) ==
    /\ 0 <= box.x
    /\ 0 <= box.y
    /\ box.width > 0
    /\ box.height > 0
    /\ box.x + box.width <= ImageWidth
    /\ box.y + box.height <= ImageHeight

\* inside the image when the usual reading of the bounding box already is
FitsUnclamped(region) ==
    /\ region.width > 0
    /\ region.height > 0
    /\ Max(0, region.left) < ImageWidth
    /\ Max(0, region.top) < ImageHeight

Profiled == SelectSeq(target_regions, FitsUnclamped)

\* the part of C8 about the crop: every box used for cropping lies inside the
\* image with positive area, and exactly the regions admitting such a box are
\* profiled, in order
ClampedBoxInsideImage ==
    AnalysisAttempted =>
        /\ \A i \in 1..Len(brightness_results) :
             BoxInsideImage(brightness_results[i].region)
        /\ [i \in 1..Len(brightness_results) |-> brightness_results[i].text]
             = [i \in 1..Len(Profiled) |-> Profiled[i].text]

\* C8: the box used for cropping lies inside the image with positive area,
\* and a box that cannot yields no profile for its region and no exception.
C8_ClampedOrSkippedWithoutException ==
    /\ ClampedBoxInsideImage
    /\ (AnalysisAttempted /\ Len(brightness_results) < Len(target_regions))
         => error = None

(***************************************************************************)
(* DataExtractor.  The transcribed text is a sequence of tokens; a regular *)
(* expression search returns the leftmost token its pattern matches, and   *)
(* findall returns every matching token from left to right.  A dict is a   *)
(* function whose domain is the set of keys present.                       *)
(***************************************************************************)
Tokens ==
    { [kind |-> "ms", value |-> 5],
      [kind |-> "ms", value |-> 148],
      [kind |-> "Mbps", value |-> 255],
      [kind |-> "Mbps", value |-> 17],
      [kind |-> "Mbps", value |-> 3],
      [kind |-> "rsrp", value |-> -89],
      [kind |-> "rsrq", value |-> -11],
      [kind |-> "sinr", value |-> 23],
      [kind |-> "network_type", value |-> 5],
      [kind |-> "coordinates", value |-> 116],
      [kind |-> "operators", value |-> 1],
      [kind |-> "word", value |-> 0] }

EmptyDict == [k \in {} |-> None]

Put(dict, key, value) == (key :> value) @@ dict

OfKind(text, kind) == SelectSeq(text, LAMBDA t : t.kind = kind)

\* f"{number}{unit}"
Format(number, unit) == [number |-> number, unit |-> unit]

\* Python's None and '' where a string is expected
NoneValue == [is_none |-> TRUE]

EmptyString == [is_empty |-> TRUE]

\* match.group(1): the digits the pattern captured, at least one
Group(token) == Format(token.value, "")

PutFirstOrNone(dict, key, text, kind) ==
    LET matches == OfKind(text, kind)
    IN IF Len(matches) > 0 THEN Put(dict, key, Group(matches[1]))
       ELSE Put(dict, key, NoneValue)

\* one re.search of _extract_network_info: the key is set only on a match
PutFirst(dict, key, text, kind) ==
    LET matches == OfKind(text, kind)
    IN IF Len(matches) > 0 THEN Put(dict, key, Group(matches[1])) ELSE dict

\* _extract_network_info, lines 87-125
extract_network_info(text) ==
    LET signal_strength ==
            PutFirst(PutFirst(PutFirst(EmptyDict, "rsrp", text, "rsrp"),
                              "rsrq", text, "rsrq"),
                     "sinr", text, "sinr")
        d1 == IF DOMAIN signal_strength # {}
              THEN Put(EmptyDict, "signal_strength", signal_strength) ELSE EmptyDict
    IN PutFirst(PutFirst(PutFirst(d1, "network_type", text, "network_type"),
                         "location", text, "coordinates"),
                "operator", text, "operators")

\* lines 141-143: ping_match = re.search(self.patterns['ping'], text)
ExtractPing(info, text) ==
    LET ping_matches == OfKind(text, "ms")
    IN IF Len(ping_matches) > 0
       THEN Put(info, "ping", Format(ping_matches[1].value, "ms"))
       ELSE info

ExtractSpeedsSwapped(info, text) ==
    LET download_matches == OfKind(text, "Mbps")
        d1 == IF Len(download_matches) >= 1
              THEN Put(info, "download",
                       Format(download_matches[Len(download_matches)].value, "Mbps"))
              ELSE info
        d2 == IF Len(download_matches) >= 2
              THEN Put(d1, "upload", Format(download_matches[1].value, "Mbps"))
              ELSE d1
    IN d2

\* lines 146-152: download_matches = re.findall(r'(\d+\.?\d*)\s*Mbps', text)
ExtractSpeeds(info, text) ==
    LET download_matches == OfKind(text, "Mbps")
        d1 == IF Len(download_matches) >= 1
              THEN Put(info, "download", Format(download_matches[1].value, "Mbps"))
              ELSE info
        d2 == IF Len(download_matches) >= 2
              THEN Put(d1, "upload", Format(download_matches[2].value, "Mbps"))
              ELSE d1
    IN d2

HasComparisonResult(analysis) == "comparison_result" \in DOMAIN analysis

ExtractOperatorStatesUnguarded(info, analysis) ==
    IF ~HasComparisonResult(analysis) THEN info
    ELSE LET comparison == analysis.comparison_result
             d1 == Put(info, "active_operator", comparison.active_operator)
             available_operators ==
                 [i \in 1..Len(comparison.operator_states) |->
                     [name |-> comparison.operator_states[i].operator,
                      status |-> comparison.operator_states[i].status,
                      brightness_level |-> comparison.operator_states[i].brightness_level]]
         IN Put(d1, "available_operators", available_operators)

\* lines 155-173: the classifier's result
ExtractOperatorStates(info, analysis) ==
    IF ~HasComparisonResult(analysis) THEN info
    ELSE LET comparison == analysis.comparison_result
             d1 == IF comparison.active_operator \notin {None, ""}
                   THEN Put(info, "active_operator", comparison.active_operator)
                   ELSE info
             available_operators ==
                 [i \in 1..Len(comparison.operator_states) |->
                     [name |-> comparison.operator_states[i].operator,
                      status |-> comparison.operator_states[i].status,
                      brightness_level |-> comparison.operator_states[i].brightness_level]]
         IN IF Len(available_operators) > 0
            THEN Put(d1, "available_operators", available_operators)
            ELSE d1

\* _extract_speed_test_info
extract_speed_test_info(text, analysis) ==
    ExtractOperatorStates(ExtractSpeeds(ExtractPing(EmptyDict, text), text), analysis)

\* extract_structured_data, lines 46-67
extract_structured_data(text, analysis) ==
    [success |-> TRUE,
     data |-> [extracted_text |-> text,
               structured_data |->
                   [network_info |-> extract_network_info(text),
                    speed_test |-> extract_speed_test_info(text, analysis)]],
     timestamp |-> "utcnow"]

\* classifier results handed to the extractor
VisualAnalyses ==
    { NoVisualAnalysis,
      [comparison_result |->
          [operator_states |-> <<>>, active_operator |-> None]],
      [comparison_result |->
          [operator_states |->
              << [operator |-> "ChinaMobile", status |-> "active",
                  brightness_level |-> "very_high", brightness_value |-> 200],
                 [operator |-> "ChinaUnicom", status |-> "inactive",
                  brightness_level |-> "low", brightness_value |-> 80] >>,
           active_operator |-> "ChinaMobile"]],
      [comparison_result |->
          [operator_states |->
              << [operator |-> "ChinaTelecom", status |-> "inactive",
                  brightness_level |-> "very_low", brightness_value |-> 0] >>,
           active_operator |-> None]] }

InitExtract ==
    /\ pc = "extract"
    /\ ocr_text \in SeqsUpTo(Tokens, MaxTokens)
    /\ visual_analysis \in VisualAnalyses
    /\ regions = <<>>
    /\ target_regions = <<>>
    /\ brightness_results = <<>>
    /\ activation_analysis = NoAnalysis
    /\ summary = None
    /\ comparison_result = None
    /\ error = None
    /\ result = None
    /\ response = None
    /\ ValidateIdle /\ NearbyIdle /\ UploadIdle

\* data_extractor.extract_structured_data(ocr_text, visual_analysis)
ExtractStructuredData ==
    /\ pc = "extract"
    /\ result' = extract_structured_data(ocr_text, visual_analysis)
    /\ pc' = "extracted"
    /\ UNCHANGED <<regions, target_regions, brightness_results, activation_analysis,
                   summary, comparison_result, error, ocr_text, visual_analysis,
                   validate_vars, response, nearby_vars, upload_vars>>

NextExtract == ExtractStructuredData

SpecExtract == InitExtract /\ [][NextExtract]_vars

(***************************************************************************)
(* Properties of the field extractor (checked under SpecExtract)           *)
(***************************************************************************)
speed_test == result.data.structured_data.speed_test

IsFirstOfKind(text, i, kind) ==
    /\ i \in 1..Len(text)
    /\ text[i].kind = kind
    /\ \A j \in 1..(i - 1) : text[j].kind # kind

IsSecondOfKind(text, i, kind) ==
    /\ i \in 1..Len(text)
    /\ text[i].kind = kind
    /\ Cardinality({j \in 1..(i - 1) : text[j].kind = kind}) = 1

CountOfKind(text, kind) == Cardinality({i \in 1..Len(text) : text[i].kind = kind})

\* C9: when the text contains several '<integer> ms' tokens, the extracted
\* ping is the first token whose value is greater than 10.
C9_PingIsFirstAboveNoiseFloor ==
    (pc = "extracted" /\ CountOfKind(ocr_text, "ms") >= 2) =>
        \A i \in 1..Len(ocr_text) :
            (/\ ocr_text[i].kind = "ms"
             /\ ocr_text[i].value > 10
             /\ \A j \in 1..(i - 1) :
                  ~(ocr_text[j].kind = "ms" /\ ocr_text[j].value > 10)) =>
                /\ "ping" \in DOMAIN speed_test
                /\ speed_test["ping"] = Format(ocr_text[i].value, "ms")

\* C10: download is the first Mbps number of the text and upload the second;
\* with exactly one Mbps number only download is present, with none both are
\* absent, and tokens beyond the second change neither field.
C10_DownloadFirstUploadSecond ==
    pc = "extracted" =>
        /\ ("download" \in DOMAIN speed_test) <=> (CountOfKind(ocr_text, "Mbps") >= 1)
        /\ ("upload" \in DOMAIN speed_test) <=> (CountOfKind(ocr_text, "Mbps") >= 2)
        /\ \A i \in 1..Len(ocr_text) :
             /\ IsFirstOfKind(ocr_text, i, "Mbps")
                  => speed_test["download"] = Format(ocr_text[i].value, "Mbps")
             /\ IsSecondOfKind(ocr_text, i, "Mbps")
                  => speed_test["upload"] = Format(ocr_text[i].value, "Mbps")

\* three Mbps numbers, all different: the third one is in neither field
C10_Witness ==
    /\ pc = "extracted"
    /\ CountOfKind(ocr_text, "Mbps") = 3
    /\ Cardinality({ocr_text[i].value : i \in 1..Len(ocr_text)}) = 3
    /\ "download" \in DOMAIN speed_test
    /\ "upload" \in DOMAIN speed_test
    /\ speed_test["download"] # speed_test["upload"]

network_info == result.data.structured_data.network_info

signal_strength ==
    IF "signal_strength" \in DOMAIN network_info
    THEN network_info["signal_strength"] ELSE EmptyDict

NonEmptyValue(v) == v # NoneValue /\ v # EmptyString

\* the key is present exactly when its pattern matched, and then not empty
PresentIffMatched(dict, key, kind) ==
    /\ (key \in DOMAIN dict) <=> (CountOfKind(ocr_text, kind) > 0)
    /\ (key \in DOMAIN dict) => NonEmptyValue(dict[key])

\* C11: each optional field of network_info and speed_test is either present
\* with a non-empty value or absent as a key, never null or empty, and a
\* pattern that does not match never makes extract_structured_data fail.
C11_OptionalFieldsPresentOrAbsent ==
    pc = "extracted" =>
        /\ result.success
        /\ PresentIffMatched(network_info, "operator", "operators")
        /\ PresentIffMatched(network_info, "network_type", "network_type")
        /\ PresentIffMatched(network_info, "location", "coordinates")
        /\ ("signal_strength" \in DOMAIN network_info) <=> (DOMAIN signal_strength # {})
        /\ PresentIffMatched(signal_strength, "rsrp", "rsrp")
        /\ PresentIffMatched(signal_strength, "rsrq", "rsrq")
        /\ PresentIffMatched(signal_strength, "sinr", "sinr")
        /\ PresentIffMatched(speed_test, "ping", "ms")
        /\ ("download" \in DOMAIN speed_test) => NonEmptyValue(speed_test["download"])
        /\ ("upload" \in DOMAIN speed_test) => NonEmptyValue(speed_test["upload"])
        /\ ("active_operator" \in DOMAIN speed_test)
             => speed_test["active_operator"] \notin {None, ""}
        /\ DOMAIN network_info
             \subseteq {"operator", "network_type", "location", "signal_strength"}
        /\ DOMAIN signal_strength \subseteq {"rsrp", "rsrq", "sinr"}

\* a text where one signal metric matches and the other patterns do not, with
\* a classifier result that names no active operator
C11_Witness ==
    /\ pc = "extracted"
    /\ HasComparisonResult(visual_analysis)
    /\ visual_analysis.comparison_result.active_operator = None
    /\ DOMAIN signal_strength = {"rsrq"}
    /\ DOMAIN network_info = {"signal_strength"}
    /\ "active_operator" \notin DOMAIN speed_test
    /\ "ping" \notin DOMAIN speed_test
    /\ Len(ocr_text) = MaxTokens

MaxChars == 2

Space == [kind |-> "space", value |-> 0]
Letter == [kind |-> "word", value |-> 0]

Newline == [kind |-> "newline", value |-> 0]

IsWhitespace(token) == token.kind \in {"space", "newline"}

\* str.strip(): leading and trailing whitespace removed
RECURSIVE LStrip(_)
LStrip(text) ==
    IF Len(text) > 0 /\ IsWhitespace(Head(text)) THEN LStrip(Tail(text)) ELSE text

RECURSIVE RStrip(_)
RStrip(text) ==
    IF Len(text) > 0 /\ IsWhitespace(text[Len(text)])
    THEN RStrip(SubSeq(text, 1, Len(text) - 1))
    ELSE text

strip(text) == RStrip(LStrip(text))

\* data.get('success', False)
GetSuccess(data) == IF "success" \in DOMAIN data THEN data["success"] ELSE FALSE

\* lines 394-422: the checks made once extraction is known to have succeeded
FieldErrors(data) ==
    LET data_errors ==
            IF "data" \notin DOMAIN data THEN << "missing_data" >>
            ELSE LET data_section == data["data"]
                     text_errors ==
                         IF "extracted_text" \notin DOMAIN data_section
                         THEN << "missing_extracted_text" >>
                         ELSE IF Len(strip(data_section["extracted_text"])) = 0
                              THEN << "empty_extracted_text" >>
                              ELSE << >>
                     structured_errors ==
                         IF "structured_data" \notin DOMAIN data_section
                         THEN << "missing_structured_data" >>
                         ELSE LET structured_data == data_section["structured_data"]
                              IN (IF "network_info" \notin DOMAIN structured_data
                                  THEN << "missing_network_info" >> ELSE << >>)
                                 \o (IF "speed_test" \notin DOMAIN structured_data
                                     THEN << "missing_speed_test" >> ELSE << >>)
                 IN text_errors \o structured_errors
        timestamp_errors ==
            IF "timestamp" \notin DOMAIN data THEN << "missing_timestamp" >> ELSE << >>
    IN data_errors \o timestamp_errors

\* line 424: return len(errors) == 0, errors
Report(errors) == [is_valid |-> Len(errors) = 0, errors |-> errors]

validate_without_early_return(data) ==
    Report((IF ~GetSuccess(data) THEN << "extraction_failed" >> ELSE << >>)
           \o FieldErrors(data))

validate_first_error_only(data) ==
    IF ~GetSuccess(data)
    THEN [is_valid |-> FALSE, errors |-> << "extraction_failed" >>]
    ELSE LET errors == FieldErrors(data)
         IN Report(IF Len(errors) > 1 THEN << errors[1] >> ELSE errors)

validate_extracted_data(data) ==
    IF ~GetSuccess(data)
    THEN [is_valid |-> FALSE, errors |-> << "extraction_failed" >>]
    ELSE Report(FieldErrors(data))

\* records handed to the validator: every key is optional
OptionalKey(key, values) ==
    { EmptyDict } \cup { Put(EmptyDict, key, value) : value \in values }

ValidateTexts == SeqsUpTo({Space, Letter}, MaxChars)

StructuredDatas ==
    { n @@ s : n \in OptionalKey("network_info", { EmptyDict }),
               s \in OptionalKey("speed_test", { EmptyDict }) }

DataSections ==
    { t @@ s : t \in OptionalKey("extracted_text", ValidateTexts),
               s \in OptionalKey("structured_data", StructuredDatas) }

Records ==
    { a @@ b @@ c : a \in OptionalKey("success", BOOLEAN),
                    b \in OptionalKey("data", DataSections),
                    c \in OptionalKey("timestamp", { "utcnow" }) }

PipelineIdle ==
    /\ regions = <<>>
    /\ target_regions = <<>>
    /\ brightness_results = <<>>
    /\ activation_analysis = NoAnalysis
    /\ summary = None
    /\ comparison_result = None
    /\ error = None
    /\ ocr_text = <<>>
    /\ visual_analysis = NoVisualAnalysis
    /\ result = None
    /\ response = None

pipeline_vars ==
    <<regions, target_regions, brightness_results, activation_analysis, summary,
      comparison_result, error, ocr_text, visual_analysis, result, response>>

InitValidate ==
    /\ pc = "validate"
    /\ record \in Records
    /\ validation = None
    /\ PipelineIdle /\ NearbyIdle /\ UploadIdle

\* is_valid, errors = data_extractor.validate_extracted_data(record)
ValidateExtractedData ==
    /\ pc = "validate"
    /\ validation' = validate_extracted_data(record)
    /\ pc' = "validated"
    /\ UNCHANGED <<record, pipeline_vars, nearby_vars, upload_vars>>

NextValidate == ValidateExtractedData

SpecValidate == InitValidate /\ [][NextValidate]_vars

(***************************************************************************)
(* Properties of the validator (checked under SpecValidate)                *)
(***************************************************************************)
\* C14: a record that reports extraction failure (success missing or false)
\* is invalid with exactly one error, whatever else is missing from it.
C14_FailureYieldsSingleError ==
    (pc = "validated" /\ ~GetSuccess(record)) =>
        /\ validation.is_valid = FALSE
        /\ validation.errors = << "extraction_failed" >>

\* a failure record with neither data nor timestamp has been validated
C14_Witness ==
    /\ pc = "validated"
    /\ "success" \in DOMAIN record /\ record["success"] = FALSE
    /\ "data" \notin DOMAIN record
    /\ "timestamp" \notin DOMAIN record
    /\ Len(validation.errors) = 1

Count(condition) == IF condition THEN 1 ELSE 0

Reported(message) == \E i \in 1..Len(validation.errors) : validation.errors[i] = message

HasData == "data" \in DOMAIN record
HasStructuredData == HasData /\ "structured_data" \in DOMAIN record["data"]

TextMissingOrBlank ==
    \/ ~HasData
    \/ "extracted_text" \notin DOMAIN record["data"]
    \/ Len(strip(record["data"]["extracted_text"])) = 0

NetworkInfoMissing ==
    ~HasStructuredData \/ "network_info" \notin DOMAIN record["data"]["structured_data"]

SpeedTestMissing ==
    ~HasStructuredData \/ "speed_test" \notin DOMAIN record["data"]["structured_data"]

TimestampMissing == "timestamp" \notin DOMAIN record

\* C15 as stated: for a record with success=true there is exactly one error
\* for each of the four required fields that is missing, and the record is
\* valid iff the error list is empty.
C15_OneErrorPerMissingField ==
    (pc = "validated" /\ GetSuccess(record)) =>
        /\ Len(validation.errors)
             = Count(TextMissingOrBlank) + Count(NetworkInfoMissing)
               + Count(SpeedTestMissing) + Count(TimestampMissing)
        /\ validation.is_valid <=> (Len(validation.errors) = 0)

\* C15, amended: one error for each required item that is missing where its
\* container is present (data; extracted_text and structured_data within
\* data; network_info and speed_test within structured_data; timestamp); a
\* missing container yields one error in place of those of its fields; every
\* applicable check is made; valid iff the list is empty, which is iff all
\* four required fields are present.
C15_OneErrorPerMissingItem ==
    (pc = "validated" /\ GetSuccess(record)) =>
        /\ Reported("missing_data") <=> ~HasData
        /\ Reported("missing_extracted_text")
             <=> (HasData /\ "extracted_text" \notin DOMAIN record["data"])
        /\ Reported("empty_extracted_text")
             <=> (HasData /\ "extracted_text" \in DOMAIN record["data"]
                    /\ TextMissingOrBlank)
        /\ Reported("missing_structured_data") <=> (HasData /\ ~HasStructuredData)
        /\ Reported("missing_network_info") <=> (HasStructuredData /\ NetworkInfoMissing)
        /\ Reported("missing_speed_test") <=> (HasStructuredData /\ SpeedTestMissing)
        /\ Reported("missing_timestamp") <=> TimestampMissing
        /\ Len(validation.errors)
             = Count(~HasData) + Count(HasData /\ TextMissingOrBlank)
               + Count(HasData /\ ~HasStructuredData)
               + Count(HasStructuredData /\ NetworkInfoMissing)
               + Count(HasStructuredData /\ SpeedTestMissing)
               + Count(TimestampMissing)
        /\ validation.is_valid <=> (Len(validation.errors) = 0)
        /\ validation.is_valid
             <=> ~(TextMissingOrBlank \/ NetworkInfoMissing
                   \/ SpeedTestMissing \/ TimestampMissing)

\* a successful record with blank text, no speed_test and no timestamp has
\* been validated and carries three errors
C15_Witness ==
    /\ pc = "validated"
    /\ GetSuccess(record)
    /\ HasStructuredData
    /\ "extracted_text" \in DOMAIN record["data"]
    /\ record["data"]["extracted_text"] = << Space >>
    /\ ~NetworkInfoMissing
    /\ SpeedTestMissing
    /\ TimestampMissing
    /\ Len(validation.errors) = 3

(***************************************************************************)
(* _find_nearby_number (modules/data_extractor.py, lines 328-352)          *)
(*                                                                         *)
(* A word is modelled by the integers that -?\d+ matches in its text, in   *)
(* order of occurrence: re.search returns the first.  Positions are        *)
(* 0-based as in the program; word_data[i + 1] is the program's            *)
(* word_data[i].                                                           *)
(***************************************************************************)
MaxWords == 7

search_range == 3

\* words with no integer, with one (negative) integer, with two integers
Words == { << >>, << -89 >>, << 23, 7 >> }

\* lines 345-350: first word of range(i, end_index), other than the keyword's,
\* in which re.search finds an integer; number_match.group(0)
RECURSIVE ScanWords(_, _, _, _, _)
ScanWords(words, keyword, i, end_index, skip_keyword) ==
    IF i >= end_index THEN NoneValue
    ELSE IF (i # keyword \/ ~skip_keyword) /\ Len(words[i + 1]) > 0
         THEN Format(words[i + 1][1], "")
         ELSE ScanWords(words, keyword, i + 1, end_index, skip_keyword)

find_nearby_number_including_keyword(words, keyword) ==
    ScanWords(words, keyword, Max(0, keyword - search_range),
              Min(Len(words), keyword + search_range + 1), FALSE)

find_nearby_number(words, keyword) ==
    LET start_index == Max(0, keyword - search_range)
        end_index == Min(Len(words), keyword + search_range + 1)
    IN ScanWords(words, keyword, start_index, end_index, TRUE)

InitNearby ==
    /\ pc = "find"
    /\ word_data \in SeqsUpTo(Words, MaxWords)
    /\ Len(word_data) > 0
    /\ index \in 0..(Len(word_data) - 1)
    /\ nearby = None
    /\ PipelineIdle /\ ValidateIdle /\ UploadIdle

\* nearby_number = self._find_nearby_number(word_data, i)
FindNearbyNumber ==
    /\ pc = "find"
    /\ nearby' = find_nearby_number(word_data, index)
    /\ pc' = "found"
    /\ UNCHANGED <<word_data, index, pipeline_vars, validate_vars, upload_vars>>

NextNearby == FindNearbyNumber

SpecNearby == InitNearby /\ [][NextNearby]_vars

(***************************************************************************)
(* Properties of the proximity search (checked under SpecNearby)           *)
(***************************************************************************)
\* positions index-3 .. index+3 inside the sequence, index itself excluded
Scanned(j) ==
    /\ j \in 0..(Len(word_data) - 1)
    /\ j # index
    /\ j >= index - 3
    /\ j <= index + 3

HasInteger(j) == Len(word_data[j + 1]) > 0

\* C20: the value returned is the first integer of the first word, in
\* ascending position among index-3 .. index+3 without index, that contains
\* one; none is returned exactly when no such word contains an integer.
C20_FirstIntegerWithinThree ==
    pc = "found" =>
        /\ (nearby = NoneValue)
             <=> ~\E j \in 0..(Len(word_data) - 1) : Scanned(j) /\ HasInteger(j)
        /\ \A j \in 0..(Len(word_data) - 1) :
             ( /\ Scanned(j) /\ HasInteger(j)
               /\ \A k \in 0..(j - 1) : ~(Scanned(k) /\ HasInteger(k)) )
               => nearby = Format(word_data[j + 1][1], "")

\* the keyword's own word and a word four positions before it hold integers,
\* the words in between do not, and the value comes from after the keyword
C20_Witness ==
    /\ pc = "found"
    /\ Len(word_data) = 7
    /\ index = 4
    /\ HasInteger(0) /\ HasInteger(4)
    /\ ~HasInteger(1) /\ ~HasInteger(2) /\ ~HasInteger(3) /\ ~HasInteger(5)
    /\ word_data[7] = << 23, 7 >>
    /\ nearby = Format(23, "")

(***************************************************************************)
(* extract_mobile_network_data (modules/data_extractor.py, lines 177-326)  *)
(* and process_image (app.py, lines 139-222).                              *)
(*                                                                         *)
(* selection_confidence is kept in tenths; relative_brightness is kept as  *)
(* the pair (brightness_value, maximum) of the division that computes it.  *)
(* An OCR word is described by the keyword its text contains and by the    *)
(* integers -?\d+ matches in it.                                           *)
(***************************************************************************)
MaxProcessRegions == 1

DownloadLabel == [kind |-> "download_label", value |-> 0]
UploadLabel == [kind |-> "upload_label", value |-> 0]
PingLabel == [kind |-> "ping_label", value |-> 0]

\* (\d+\.?\d*)\s*unit reached by .*? from position i: . does not match a newline
RECURSIVE ValueOnLine(_, _, _)
ValueOnLine(text, unit, i) ==
    IF i > Len(text) THEN 0
    ELSE IF text[i].kind = "newline" THEN 0
    ELSE IF text[i].kind = unit THEN i
    ELSE ValueOnLine(text, unit, i + 1)

\* re.search(label .*? value unit): the leftmost label followed by a value
RECURSIVE SearchLabelled(_, _, _, _)
SearchLabelled(text, label, unit, i) ==
    IF i > Len(text) THEN 0
    ELSE IF text[i].kind = label /\ ValueOnLine(text, unit, i + 1) # 0
         THEN ValueOnLine(text, unit, i + 1)
         ELSE SearchLabelled(text, label, unit, i + 1)

\* lines 284-290: one pattern of speed_patterns
PutDetailed(dict, key, text, label, unit) ==
    LET at == SearchLabelled(text, label, unit, 1)
    IN IF at # 0
       THEN Put(dict, key, [value |-> Group(text[at]), unit |-> unit])
       ELSE dict

RECURSIVE MaxBrightness(_, _)
MaxBrightness(states, i) ==
    IF i > Len(states) THEN 0
    ELSE Max(states[i].brightness_value, MaxBrightness(states, i + 1))

\* lines 304-311
selection_confidence(states) ==
    LET active_operators == SelectSeq(states, LAMBDA state : state.status = "active")
    IN IF Len(active_operators) = 1 THEN 9
       ELSE IF Len(active_operators) > 1 THEN 5
       ELSE 0

\* lines 314-321: brightness_value / max(...) divides by zero when every
\* carrier state has brightness 0
EnhanceSpeedRaises(analysis) ==
    /\ HasComparisonResult(analysis)
    /\ Len(analysis.comparison_result.operator_states) > 0
    /\ MaxBrightness(analysis.comparison_result.operator_states, 1) = 0

\* lines 293-324
operator_analysis(comparison) ==
    LET operator_states == comparison.operator_states
    IN [selection_confidence |-> selection_confidence(operator_states),
        brightness_comparison |->
            [i \in 1..Len(operator_states) |->
                [operator |-> operator_states[i].operator,
                 brightness_value |-> operator_states[i].brightness_value,
                 brightness_level |-> operator_states[i].brightness_level,
                 relative_brightness |->
                     << operator_states[i].brightness_value,
                        MaxBrightness(operator_states, 1) >>]],
        visual_indicators |-> EmptyDict]

\* _enhance_speed_test_extraction, where it does not raise
enhance_speed_test_extraction(text, analysis) ==
    LET d1 == PutDetailed(EmptyDict, "download_detailed", text, "download_label", "Mbps")
        d2 == PutDetailed(d1, "upload_detailed", text, "upload_label", "Mbps")
        d3 == PutDetailed(d2, "ping_detailed", text, "ping_label", "ms")
    IN IF HasComparisonResult(analysis)
       THEN Put(d3, "operator_analysis", operator_analysis(analysis.comparison_result))
       ELSE d3

Numbers(words) == [i \in 1..Len(words) |-> words[i].numbers]

\* _enhance_network_info_extraction, lines 233-260: words i .. end
RECURSIVE EnhanceNetworkFrom(_, _, _)
EnhanceNetworkFrom(enhanced_info, words, i) ==
    IF i > Len(words) THEN enhanced_info
    ELSE LET nearby_number == find_nearby_number(Numbers(words), i - 1)
             key == IF words[i].keyword = "RSRP" THEN "rsrp_detailed"
                    ELSE IF words[i].keyword = "RSRQ" THEN "rsrq_detailed"
                    ELSE "sinr_detailed"
         IN IF words[i].keyword \in {"RSRP", "RSRQ", "SINR"} /\ nearby_number # NoneValue
            THEN EnhanceNetworkFrom(
                     Put(enhanced_info, key,
                         [value |-> nearby_number, position |-> words[i]]),
                     words, i + 1)
            ELSE EnhanceNetworkFrom(enhanced_info, words, i + 1)

enhance_network_info_extraction(words) == EnhanceNetworkFrom(EmptyDict, words, 1)

\* the record of an except branch
Failure(exception) ==
    [success |-> FALSE, error |-> exception, timestamp |-> "utcnow"]

extract_mobile_network_data_keeping_partial(text, words, analysis) ==
    extract_structured_data(text, analysis)

update_replacing(base, enhancement) ==
    IF DOMAIN enhancement # {} THEN enhancement ELSE base

\* lines 198-199 and 203-204: if enhancement: base.update(enhancement)
update(base, enhancement) ==
    IF DOMAIN enhancement # {} THEN enhancement @@ base ELSE base

extract_mobile_network_data(text, words, analysis) ==
    LET structured_data == extract_structured_data(text, analysis)
    IN IF EnhanceSpeedRaises(analysis) THEN Failure("ZeroDivisionError")
       ELSE [structured_data EXCEPT
                !.data.structured_data.network_info =
                    update(@, enhance_network_info_extraction(words)),
                !.data.structured_data.speed_test =
                    update(@, enhance_speed_test_extraction(text, analysis))]

AttachValidationDroppingData(structured_result, checked) ==
    IF ~checked.is_valid
    THEN [success |-> FALSE, validation_errors |-> checked.errors,
          timestamp |-> "utcnow"]
    ELSE structured_result

\* app.py lines 190-194
AttachValidation(structured_result, checked) ==
    IF ~checked.is_valid
    THEN Put(structured_result, "validation_errors", checked.errors)
    ELSE structured_result

\* app.py lines 196-211
AttachInfo(structured_result, analysis, targets, debug) ==
    LET with_info ==
            Put(structured_result, "processing_info",
                [visual_analysis_performed |-> "is_none" \notin DOMAIN analysis,
                 operators_detected |-> Len(targets)])
    IN IF debug
       THEN Put(with_info, "debug_info",
                [visual_analysis |-> analysis, operator_regions |-> targets])
       ELSE with_info

\* what ocr_processor.extract_text returns for the image: text and word_data
OcrResults ==
    { [text |-> << >>, word_data |-> << >>],
      [text |-> << Space >>, word_data |-> << >>],
      [text |-> << [kind |-> "ms", value |-> 148], [kind |-> "Mbps", value |-> 255],
                   [kind |-> "Mbps", value |-> 17] >>,
       word_data |-> << [keyword |-> "SINR", numbers |-> << 23 >>] >>],
      [text |-> << DownloadLabel, [kind |-> "Mbps", value |-> 255],
                   [kind |-> "rsrp", value |-> -89] >>,
       word_data |-> << [keyword |-> "RSRP", numbers |-> << >>],
                        [keyword |-> "", numbers |-> << -89 >>] >>],
      [text |-> << PingLabel, Newline, [kind |-> "ms", value |-> 148] >>,
       word_data |-> << [keyword |-> "", numbers |-> << 148 >>] >>] }

InitProcess ==
    /\ pc = "received"
    /\ regions \in SeqsUpTo(RegionInputs, MaxProcessRegions)
    /\ \E ocr_result \in OcrResults :
        /\ ocr_text = ocr_result.text
        /\ word_data = ocr_result.word_data
    /\ target_regions = <<>>
    /\ brightness_results = <<>>
    /\ activation_analysis = NoAnalysis
    /\ summary = None
    /\ comparison_result = None
    /\ error = None
    /\ visual_analysis = NoVisualAnalysis
    /\ result = None
    /\ response = None
    /\ index = 0 /\ nearby = None
    /\ ValidateIdle /\ UploadIdle

\* the except branch of process_image, lines 216-222
Raise(exception) ==
    /\ error' = exception
    /\ response' = Failure(exception)
    /\ pc' = "responded"

\* ocr_result = ocr_processor.extract_text(image_path)
OcrExtractText ==
    /\ pc = "received"
    /\ \E engine_fails \in BOOLEAN :
        IF engine_fails
        THEN Raise("OCRError")
        ELSE pc' = "transcribed" /\ UNCHANGED <<error, response>>
    /\ UNCHANGED <<regions, target_regions, brightness_results, activation_analysis,
                   summary, comparison_result, ocr_text, visual_analysis, result,
                   validate_vars, nearby_vars, upload_vars>>

\* operator_regions = ocr_processor.get_text_regions(image_path, operators)
OcrGetTextRegions ==
    /\ pc = "transcribed"
    /\ \E engine_fails \in BOOLEAN :
        IF engine_fails
        THEN Raise("OCRError") /\ UNCHANGED target_regions
        ELSE /\ target_regions' = get_text_regions(regions)
             /\ pc' = "located"
             /\ UNCHANGED <<error, response>>
    /\ UNCHANGED <<regions, brightness_results, activation_analysis,
                   summary, comparison_result, ocr_text, visual_analysis, result,
                   validate_vars, nearby_vars, upload_vars>>

\* lines 165-176: analyze_text_brightness and compare_text_regions, when
\* there is a target region
ClassifyRegions ==
    /\ pc = "located"
    /\ IF Len(target_regions) = 0
       THEN /\ pc' = "classified"
            /\ UNCHANGED <<brightness_results, activation_analysis, summary,
                           comparison_result, visual_analysis, error, response>>
       ELSE \E readable \in BOOLEAN, image \in Images :
            LET results == ProfileRegions(target_regions, image, 1)
                analysis == analyze_activation_states(results)
            IN IF ~readable
               THEN /\ Raise("ValueError")
                    /\ UNCHANGED <<brightness_results, activation_analysis, summary,
                                   comparison_result, visual_analysis>>
               ELSE /\ brightness_results' = results
                    /\ activation_analysis' = analysis
                    /\ IF SummaryRaises(analysis)
                       THEN /\ Raise("KeyError")
                            /\ UNCHANGED <<summary, comparison_result, visual_analysis>>
                       ELSE /\ summary' = generate_summary(results, analysis)
                            /\ comparison_result' = compare_operator_selection(analysis)
                            /\ visual_analysis' =
                                  [comparison_result |->
                                      compare_operator_selection(analysis)]
                            /\ pc' = "classified"
                            /\ UNCHANGED <<error, response>>
    /\ UNCHANGED <<regions, target_regions, ocr_text, result,
                   validate_vars, nearby_vars, upload_vars>>

\* structured_result = data_extractor.extract_mobile_network_data(...)
ExtractMobileNetworkData ==
    /\ pc = "classified"
    /\ result' = extract_mobile_network_data(ocr_text, word_data, visual_analysis)
    /\ pc' = "structured"
    /\ UNCHANGED <<regions, target_regions, brightness_results, activation_analysis,
                   summary, comparison_result, error, ocr_text, visual_analysis,
                   response, validate_vars, nearby_vars, upload_vars>>

\* lines 188-214: validate, attach the errors and the processing info, return
ValidateAndRespond ==
    /\ pc = "structured"
    /\ \E debug \in BOOLEAN :
        LET checked == validate_extracted_data(result)
        IN /\ validation' = checked
           /\ response' = AttachInfo(AttachValidation(result, checked),
                                     visual_analysis, target_regions, debug)
    /\ pc' = "responded"
    /\ UNCHANGED <<regions, target_regions, brightness_results, activation_analysis,
                   summary, comparison_result, error, ocr_text, visual_analysis,
                   result, record, nearby_vars, upload_vars>>

NextProcess ==
    \/ OcrExtractText
    \/ OcrGetTextRegions
    \/ ClassifyRegions
    \/ ExtractMobileNetworkData
    \/ ValidateAndRespond

SpecProcess == InitProcess /\ [][NextProcess]_vars

(***************************************************************************)
(* Properties of request processing (checked under SpecProcess)            *)
(***************************************************************************)
Answered == pc = "responded"

\* the extractor returned a record and process_image went on to validate it
Validated == Answered /\ error = None

\* C16: validation and the attachment of its errors leave the data as the
\* extractor produced it; an invalid record is returned with its
\* structured_data and with the errors alongside.
C16_ValidationLeavesDataUnchanged ==
    Validated =>
        /\ response["success"] = result["success"]
        /\ ("data" \in DOMAIN response) <=> ("data" \in DOMAIN result)
        /\ ("data" \in DOMAIN result) =>
              /\ response["data"] = result["data"]
              /\ response["data"]["extracted_text"] = ocr_text
        /\ ~validation.is_valid =>
              /\ "validation_errors" \in DOMAIN response
              /\ response["validation_errors"] = validation.errors
        /\ (GetSuccess(result) /\ Len(strip(ocr_text)) = 0) =>
              /\ ~validation.is_valid
              /\ validation.errors = << "empty_extracted_text" >>
              /\ "network_info" \in DOMAIN response["data"]["structured_data"]
              /\ "speed_test" \in DOMAIN response["data"]["structured_data"]

\* a record with blank text and an active carrier is answered, invalid, with
\* the carrier states in its speed_test
C16_Witness ==
    /\ Validated
    /\ GetSuccess(result)
    /\ ocr_text = << Space >>
    /\ ~validation.is_valid
    /\ "data" \in DOMAIN response
    /\ "active_operator" \in DOMAIN response["data"]["structured_data"]["speed_test"]
    /\ "validation_errors" \in DOMAIN response

\* a step of the request raised: in process_image, or in the enrichment
\* called by extract_mobile_network_data
StepRaised ==
    /\ pc \in {"structured", "responded"}
    /\ \/ error # None
       \/ EnhanceSpeedRaises(visual_analysis)

\* C17: when a step raises, extract_mobile_network_data and process_image
\* return a record with success=false and an error, without data.
C17_ExceptionsBecomeFailureRecords ==
    StepRaised =>
        /\ (error = None) =>
              /\ result["success"] = FALSE
              /\ "error" \in DOMAIN result
              /\ "data" \notin DOMAIN result
        /\ Answered =>
              /\ response["success"] = FALSE
              /\ "error" \in DOMAIN response
              /\ "data" \notin DOMAIN response

\* the enrichment divided by zero and the request was answered
C17_Witness ==
    /\ Answered
    /\ error = None
    /\ EnhanceSpeedRaises(visual_analysis)
    /\ response["success"] = FALSE

\* C18: a request whose image is readable and on which the OCR engine
\* succeeds is answered with success=true and data holding extracted_text
\* and structured_data with network_info and speed_test.
C18_ReadableImageYieldsRecord ==
    (Answered /\ error \notin {"OCRError", "ValueError"}) =>
        /\ response["success"] = TRUE
        /\ "data" \in DOMAIN response
        /\ "extracted_text" \in DOMAIN response["data"]
        /\ "structured_data" \in DOMAIN response["data"]
        /\ "network_info" \in DOMAIN response["data"]["structured_data"]
        /\ "speed_test" \in DOMAIN response["data"]["structured_data"]

(***************************************************************************)
(* upload_file (app.py, lines 54-102) served by concurrent worker threads  *)
(* (app.run(..., threaded=True), line 358).  The content of an uploaded    *)
(* image is identified by the request that sent it.  The upload folder is  *)
(* shared by the threads; a path is the pair (timestamp, file name).       *)
(***************************************************************************)
NumThreads == 2
MaxClock == 1

Threads == 1..NumThreads

\* secure_filename(file.filename) of the uploads
Filenames == {"screenshot.png", "capture.png"}

Idle == [pc |-> "idle", filename |-> "", filepath |-> << 0, "" >>, processed |-> 0]

InitUpload ==
    /\ pc = "serving"
    /\ files = EmptyDict
    /\ requests = [t \in Threads |-> Idle]
    /\ clock = 0
    /\ PipelineIdle /\ ValidateIdle /\ NearbyIdle

\* the wall clock reaches the next second
Tick ==
    /\ clock < MaxClock
    /\ clock' = clock + 1
    /\ UNCHANGED <<pc, files, requests, pipeline_vars, validate_vars, nearby_vars>>

\* lines 84-87: filename = f"{timestamp}_{secure_filename(file.filename)}"
NameFile(t) ==
    /\ requests[t].pc = "idle"
    /\ \E filename \in Filenames :
        requests' = [requests EXCEPT ![t] =
                        [@ EXCEPT !.pc = "named", !.filename = filename,
                                  !.filepath = << clock, filename >>]]
    /\ UNCHANGED <<pc, files, clock, pipeline_vars, validate_vars, nearby_vars>>

\* line 88: file.save(filepath), replacing any file already at that path
SaveFile(t) ==
    /\ requests[t].pc = "named"
    /\ files' = Put(files, requests[t].filepath, t)
    /\ requests' = [requests EXCEPT ![t].pc = "saved"]
    /\ UNCHANGED <<pc, clock, pipeline_vars, validate_vars, nearby_vars>>

\* line 93: result = process_image(filepath), which reads the file at filepath
ProcessUpload(t) ==
    /\ requests[t].pc = "saved"
    /\ requests' = [requests EXCEPT ![t] =
                        [@ EXCEPT !.pc = "answered",
                                  !.processed = files[requests[t].filepath]]]
    /\ UNCHANGED <<pc, files, clock, pipeline_vars, validate_vars, nearby_vars>>

NextUpload ==
    \/ Tick
    \/ \E t \in Threads : NameFile(t)
    \/ \E t \in Threads : SaveFile(t)
    \/ \E t \in Threads : ProcessUpload(t)

SpecUpload == InitUpload /\ [][NextUpload]_vars

(***************************************************************************)
(* Properties of concurrent uploads (checked under SpecUpload)             *)
(***************************************************************************)
\* C19: each upload request processes the image file that this same request
\* saved; no file written by one request is overwritten or read by another.
C19_RequestProcessesOwnUpload ==
    \A t \in Threads :
        /\ requests[t].pc = "answered" => requests[t].processed = t
        /\ requests[t].pc = "saved" => files[requests[t].filepath] = t

(***************************************************************************)
(* Properties of the enrichment merge (checked under SpecProcess)          *)
(***************************************************************************)
\* extract_mobile_network_data returned a record with data
Enriched == pc \in {"structured", "responded"} /\ error = None /\ GetSuccess(result)

\* every key of base is in merged, with the enhancement's value when the
\* enhancement defines the key and with the base value otherwise
KeepsBase(merged, base, enhancement) ==
    \A key \in DOMAIN base :
        /\ key \in DOMAIN merged
        /\ IF key \in DOMAIN enhancement
           THEN merged[key] = enhancement[key]
           ELSE merged[key] = base[key]

\* C21: after the merge every key of the base network_info and speed_test
\* keeps its base value unless the enrichment defines that key; a key absent
\* from the enrichment never removes or clears a base value.
C21_MergeKeepsBaseValues ==
    Enriched =>
        /\ KeepsBase(result["data"]["structured_data"]["network_info"],
                     extract_network_info(ocr_text),
                     enhance_network_info_extraction(word_data))
        /\ KeepsBase(result["data"]["structured_data"]["speed_test"],
                     extract_speed_test_info(ocr_text, visual_analysis),
                     enhance_speed_test_extraction(ocr_text, visual_analysis))

\* base fields and enrichment fields are both present after the merge
C21_Witness ==
    /\ Enriched
    /\ {"signal_strength", "rsrp_detailed"}
          \subseteq DOMAIN result["data"]["structured_data"]["network_info"]
    /\ {"download", "download_detailed"}
          \subseteq DOMAIN result["data"]["structured_data"]["speed_test"]

(***************************************************************************)
(* Further properties of the classifier (checked under Spec)               *)
(***************************************************************************)
\* number of entries of a sequence of keys equal to key
Occurrences(keys, key) == Cardinality({i \in 1..Len(keys) : keys[i] = key})

\* C22: for a non-empty list of profiles, each profile is in exactly one of
\* active_texts and inactive_texts, with the status of the list it is in, and
\* the summary has active_regions + inactive_regions = total_text_regions and
\* activation_ratio = active_regions / total_text_regions.
C22_ListsPartitionProfiles ==
    (Analyzed /\ Len(brightness_results) > 0) =>
        LET active_texts == activation_analysis.active_texts
            inactive_texts == activation_analysis.inactive_texts
            keys == ResultKeys(brightness_results)
        IN /\ \A i \in 1..Len(keys) :
                Occurrences(InfoKeys(active_texts), keys[i])
                + Occurrences(InfoKeys(inactive_texts), keys[i])
                  = Occurrences(keys, keys[i])
           /\ Len(active_texts) + Len(inactive_texts) = Len(brightness_results)
           /\ \A i \in 1..Len(active_texts) : active_texts[i].status = "active"
           /\ \A i \in 1..Len(inactive_texts) : inactive_texts[i].status = "inactive"
           /\ summary.total_text_regions = Len(brightness_results)
           /\ summary.active_regions = Len(active_texts)
           /\ summary.inactive_regions = Len(inactive_texts)
           /\ summary.active_regions + summary.inactive_regions
                = summary.total_text_regions
           /\ summary.activation_ratio
                = << summary.active_regions, summary.total_text_regions >>

\* two profiles, one in each list, summarised as one active of two
C22_Witness ==
    /\ Analyzed
    /\ Len(brightness_results) = 2
    /\ Len(activation_analysis.active_texts) = 1
    /\ Len(activation_analysis.inactive_texts) = 1
    /\ summary.activation_ratio = << 1, 2 >>

EquallyBright ==
    \A i, j \in 1..Len(brightness_results) :
        brightness_results[i].brightness = brightness_results[j].brightness

ContrastAndSharpness(r) == IndicatorC(r) /\ IndicatorS(r)

\* C23: in every non-empty set of profiles at least one has the brightness
\* indicator false; when the profiles are equally bright (a sole profile
\* included) none has it, and the active ones are exactly those whose
\* contrast and sharpness both exceed their thresholds.
C23_SomeCandidateNotBrighterThanAverage ==
    (Analyzed /\ Len(brightness_results) > 0) =>
        /\ \E i \in 1..Len(brightness_results) : ~IndicatorB(brightness_results[i])
        /\ EquallyBright =>
              /\ \A i \in 1..Len(brightness_results) :
                    ~IndicatorB(brightness_results[i])
              /\ InfoKeys(activation_analysis.active_texts)
                    = ResultKeys(SelectSeq(brightness_results, ContrastAndSharpness))
              /\ \A i \in 1..Len(activation_analysis.active_texts) :
                    activation_analysis.active_texts[i].contrast_value
                        > contrast_threshold

\* two equally bright profiles above the absolute threshold: the one with
\* contrast and sharpness is active, the other is not
C23_Witness ==
    /\ Analyzed
    /\ Len(brightness_results) = 2
    /\ brightness_results[1].brightness = 200
    /\ brightness_results[2].brightness = 200
    /\ ContrastAndSharpness(brightness_results[1])
    /\ ~IndicatorC(brightness_results[2])
    /\ Len(activation_analysis.active_texts) = 1
    /\ activation_analysis.active_texts[1].text = brightness_results[1].text

(***************************************************************************)
(* Properties of the speed-test enrichment (checked under SpecProcess)     *)
(***************************************************************************)
\* extract_mobile_network_data was handed a non-empty set of operator states
EnrichedWithStates ==
    /\ pc \in {"structured", "responded"}
    /\ error = None
    /\ HasComparisonResult(visual_analysis)
    /\ Len(visual_analysis.comparison_result.operator_states) > 0

\* C24: for every non-empty set of operator states the classifier produces,
\* extract_mobile_network_data returns success=true with the base fields
\* intact and a relative brightness between 0 and 1 for each operator, the
\* brightest at 1.
C24_RelativeBrightnessWithinUnit ==
    EnrichedWithStates =>
        /\ result["success"] = TRUE
        /\ KeepsBase(result["data"]["structured_data"]["speed_test"],
                     extract_speed_test_info(ocr_text, visual_analysis),
                     EmptyDict)
        /\ "operator_analysis" \in DOMAIN result["data"]["structured_data"]["speed_test"]
        /\ LET comparison ==
                   result["data"]["structured_data"]["speed_test"]["operator_analysis"]
                       .brightness_comparison
           IN /\ Len(comparison) = Len(visual_analysis.comparison_result.operator_states)
              /\ \A i \in 1..Len(comparison) :
                    /\ comparison[i].relative_brightness[2] > 0
                    /\ comparison[i].relative_brightness[1] >= 0
                    /\ comparison[i].relative_brightness[1]
                          <= comparison[i].relative_brightness[2]
              /\ \E i \in 1..Len(comparison) :
                    comparison[i].relative_brightness[1]
                        = comparison[i].relative_brightness[2]

(***************************************************************************)
(* test_ocr (app.py, lines 272-323) served by concurrent worker threads.   *)
(* The temporary file is saved in the shared upload folder under           *)
(* test_<timestamp>_<file name>.                                           *)
(***************************************************************************)
InitTestOcr ==
    /\ pc = "testing"
    /\ files = EmptyDict
    /\ requests = [t \in Threads |-> Idle]
    /\ clock = 0
    /\ PipelineIdle /\ ValidateIdle /\ NearbyIdle

\* lines 298-301: filename = f"test_{timestamp}_{secure_filename(file.filename)}"
TestNameFile(t) ==
    /\ requests[t].pc = "idle"
    /\ \E filename \in Filenames :
        requests' = [requests EXCEPT ![t] =
                        [@ EXCEPT !.pc = "named", !.filename = filename,
                                  !.filepath = << clock, filename >>]]
    /\ UNCHANGED <<pc, files, clock, pipeline_vars, validate_vars, nearby_vars>>

\* line 302: file.save(filepath)
TestSaveFile(t) ==
    /\ requests[t].pc = "named"
    /\ files' = Put(files, requests[t].filepath, t)
    /\ requests' = [requests EXCEPT ![t].pc = "saved"]
    /\ UNCHANGED <<pc, clock, pipeline_vars, validate_vars, nearby_vars>>

\* line 305: ocr_result = ocr_processor.extract_text(filepath); when it
\* raises, the outer except (lines 318-323) answers at once
TestExtractText(t) ==
    /\ requests[t].pc = "saved"
    /\ \E engine_fails \in BOOLEAN :
        IF engine_fails \/ requests[t].filepath \notin DOMAIN files
        THEN requests' = [requests EXCEPT ![t].pc = "answered"]
        ELSE requests' = [requests EXCEPT ![t] =
                             [@ EXCEPT !.pc = "transcribed",
                                       !.processed = files[requests[t].filepath]]]
    /\ UNCHANGED <<pc, files, clock, pipeline_vars, validate_vars, nearby_vars>>

\* os.remove(filepath): the file is gone afterwards
Remove(folder, filepath) ==
    [path \in DOMAIN folder \ {filepath} |-> folder[path]]

\* lines 308-316: os.remove(filepath) with every error passed over, then the
\* response
TestRemoveFile(t) ==
    /\ requests[t].pc = "transcribed"
    /\ files' = Remove(files, requests[t].filepath)
    /\ requests' = [requests EXCEPT ![t].pc = "answered"]
    /\ UNCHANGED <<pc, clock, pipeline_vars, validate_vars, nearby_vars>>

NextTestOcr ==
    \/ Tick
    \/ \E t \in Threads : TestNameFile(t)
    \/ \E t \in Threads : TestSaveFile(t)
    \/ \E t \in Threads : TestExtractText(t)
    \/ \E t \in Threads : TestRemoveFile(t)

SpecTestOcr == InitTestOcr /\ [][NextTestOcr]_vars

(***************************************************************************)
(* Properties of test_ocr (checked under SpecTestOcr)                      *)
(***************************************************************************)
\* C25: when a request that saved its temporary file is answered, the file
\* no longer exists, whether OCR succeeded or failed.
C25_TemporaryFileRemovedAtResponse ==
    [][\A t \in Threads :
          (requests[t].pc \in {"saved", "transcribed"}
           /\ requests'[t].pc = "answered")
             => requests[t].filepath \notin DOMAIN files']_vars

====
